---- MODULE Spec2Model ----
(***************************************************************************)
(* Model of app.py: the approval relay between launchers (POST /notify,    *)
(* GET /check_status/{machine_id}) and the operator's Telegram chat        *)
(* (POST /telegram).                                                       *)
(*                                                                         *)
(* The handlers are asyncio coroutines on one event loop: a handler runs   *)
(* atomically from one `await` to the next, and other handlers interleave  *)
(* at the awaits.  Each task slot holds one in-flight handler call and its *)
(* position (pc) at an await of a Telegram call.  The first await of a     *)
(* handler, request.json(), precedes everything the handler does, so the   *)
(* arrival of a request and the block up to the first Telegram call are    *)
(* one step.  Strings that the code takes apart                            *)
(* (callback_data, machine_id) are sequences of tokens, "_" being the      *)
(* separator token of callback_data.split("_", 1).                         *)
(***************************************************************************)
EXTENDS Integers, Sequences, FiniteSets, TLC

\* ---- bounds ----
NumTasks == 2
MaxMsgs == 2

Tasks == 1..NumTasks

\* ---- program constants and input alphabets ----
ADMIN_CHAT_ID == 1001
ChatIds == {ADMIN_CHAT_ID, ADMIN_CHAT_ID + 1}

MachineIds == {<<"m", "_", "1">>}
UnknownID == <<"Unknown ID">>
UnknownUser == "Unknown User"
NoneVal == "None"

VARIABLES approval_db, messages, task

vars == <<approval_db, messages, task>>

\* ---- dict helpers ----
EmptyDb == [k \in {} |-> "pending"]

\* dict.get(key, default)
Get(d, k, default) == IF k \in DOMAIN d THEN d[k] ELSE default

\* approval_db[k] = v
DbSet(db, k, v) == [x \in (DOMAIN db) \cup {k} |-> IF x = k THEN v ELSE db[x]]

\* approval_db.get(machine_id, "not_found")
StatusOf(db, machine_id) == Get(db, machine_id, "not_found")

\* ---- callback_data ----
\* f"approve_{machine_id}" / f"deny_{machine_id}"
Tag(action, machine_id) == <<action, "_">> \o machine_id

SepIdx(s) == {i \in 1..Len(s) : s[i] = "_"}

\* callback_data.split("_", 1): a list of one or two parts
Split(s) ==
    IF SepIdx(s) = {}
    THEN <<s>>
    ELSE LET i == CHOOSE j \in SepIdx(s) : \A k \in SepIdx(s) : j <= k
         IN <<SubSeq(s, 1, i - 1), SubSeq(s, i + 1, Len(s))>>

\* the inline keyboard of a permission request
Keyboard(machine_id) ==
    << [text |-> "Approve", callback_data |-> Tag("approve", machine_id)],
       [text |-> "Deny", callback_data |-> Tag("deny", machine_id)] >>

\* ---- message texts ----
RequestText(user_name, machine_id) == <<"New Permission Request", user_name, machine_id>>
NotificationText(data) == <<"Notification", data>>
ApprovedText(machine_id) == <<"Approved", machine_id>>
DeniedText(machine_id) == <<"Denied", machine_id>>
HelloText(chat_id) == <<"Hello", chat_id>>
ClearedText == <<"Server cache cleared">>

ClearCacheAllowed_AnyChat(text, chat_id) == text = "/clear_cache"

\* "/clear_cache" is honoured only from the configured operator chat
ClearCacheAllowed(text, chat_id) == text = "/clear_cache" /\ chat_id = ADMIN_CHAT_ID

\* ---- task slots ----
Idle ==
    [kind |-> "idle", pc |-> "idle", body |-> [ok |-> FALSE],
     event_type |-> NoneVal, machine_id |-> <<>>, action |-> <<>>,
     message_id |-> 0, chat_id |-> 0, text |-> <<>>, keyboard |-> <<>>,
     err |-> FALSE, response |-> ""]

InFlight == {t \in Tasks : task[t].kind # "idle"}

\* every in-flight handler may still deliver one message
CanStart == Len(messages) + Cardinality(InFlight) < MaxMsgs

\* ---- inputs ----
\* bodies POSTed to /notify
NotifyInputs ==
    { [ok |-> FALSE],
      [ok |-> TRUE, json |-> [event |-> "Permission Requested", machine_id |-> <<"m", "_", "1">>]],
      [ok |-> TRUE, json |-> [event |-> "Permission Requested", user |-> "alice"]],
      [ok |-> TRUE, json |-> [event |-> "Launcher Started", machine_id |-> <<"m", "_", "1">>]],
      [ok |-> TRUE, json |-> [machine_id |-> <<"m", "_", "1">>]] }

\* a press of a button that a delivered message still shows
ButtonPresses ==
    { [ok |-> TRUE,
       json |-> [callback_query |->
                   [id |-> "q", data |-> messages[i].keyboard[b].callback_data,
                    message_id |-> i, chat_id |-> messages[i].chat]]] :
      i \in {j \in 1..Len(messages) : messages[j].keyboard # <<>>}, b \in 1..2 }

\* other callback queries POSTed to /telegram: tags no button carries, on a
\* message that does not exist, and a callback_query without its data
RawCallbackData == { <<"approve">>, <<"revoke", "_", "m", "_", "1">>, <<"deny", "_", "m", "_", "1">> }

RawCallbacks ==
    { [ok |-> TRUE,
       json |-> [callback_query |->
                   [id |-> "q", data |-> d, message_id |-> 0, chat_id |-> ADMIN_CHAT_ID]]] :
      d \in RawCallbackData }
    \cup { [ok |-> TRUE, json |-> [callback_query |->
                                     [id |-> "q", message_id |-> 0, chat_id |-> ADMIN_CHAT_ID]]] }

\* text commands, other updates, and a body that is not JSON
Commands ==
    { [ok |-> TRUE, json |-> [message |-> [chat_id |-> c, text |-> x]]] :
      c \in ChatIds, x \in {"/start", "/clear_cache"} }
    \cup { [ok |-> TRUE, json |-> [message |-> [chat_id |-> ADMIN_CHAT_ID, text |-> "hello"]]],
           [ok |-> TRUE, json |-> [message |-> [chat_id |-> ADMIN_CHAT_ID]]],
           [ok |-> TRUE, json |-> [edited_message |-> [chat_id |-> ADMIN_CHAT_ID]]],
           [ok |-> FALSE] }

WebhookInputs == ButtonPresses \cup RawCallbacks \cup Commands

Init ==
    /\ approval_db = EmptyDb
    /\ messages = <<>>
    /\ task = [t \in Tasks |-> Idle]

\* a handler call that has just read its request body
Call(kind, body) == [Idle EXCEPT !.kind = kind, !.body = body]

\* a handler call that has produced its response and not yet returned
Done(call, err, response) ==
    [call EXCEPT !.pc = "done", !.err = err, !.response = response]

check_status_Subscript(t, machine_id) ==
    /\ task[t].kind = "idle"
    /\ task' = [task EXCEPT ![t] =
                  Done([Idle EXCEPT !.kind = "check_status", !.machine_id = machine_id],
                       FALSE,
                       IF machine_id \in DOMAIN approval_db
                       THEN approval_db[machine_id] ELSE "500")]
    /\ UNCHANGED <<approval_db, messages>>

check_status_Setdefault(t, machine_id) ==
    /\ task[t].kind = "idle"
    /\ task' = [task EXCEPT ![t] =
                  Done([Idle EXCEPT !.kind = "check_status", !.machine_id = machine_id],
                       FALSE, StatusOf(approval_db, machine_id))]
    /\ approval_db' = DbSet(approval_db, machine_id, StatusOf(approval_db, machine_id))
    /\ UNCHANGED messages

\* ---- GET /check_status/{machine_id} ----
check_status(t, machine_id) ==
    /\ task[t].kind = "idle"
    /\ task' = [task EXCEPT ![t] =
                  Done([Idle EXCEPT !.kind = "check_status", !.machine_id = machine_id],
                       FALSE, StatusOf(approval_db, machine_id))]
    /\ UNCHANGED <<approval_db, messages>>

\* ---- POST /notify ----
\* request.json() raises on a body that is not JSON
NotifyBadBody(t, body) ==
    /\ task[t].kind = "idle"
    /\ ~body.ok
    /\ task' = [task EXCEPT ![t] = Done(Call("notify", body), FALSE, "500")]
    /\ UNCHANGED <<approval_db, messages>>

\* the "Permission Requested" branch up to the await of send_message
NotifyPermission(t, body) ==
    /\ task[t].kind = "idle"
    /\ CanStart
    /\ body.ok
    /\ LET data == body.json
           event_type == Get(data, "event", NoneVal)
           user_name == Get(data, "user", UnknownUser)
           machine_id == Get(data, "machine_id", UnknownID)
       IN /\ event_type = "Permission Requested"
          /\ approval_db' = DbSet(approval_db, machine_id, "pending")
          /\ task' = [task EXCEPT ![t] =
                        [Call("notify", body) EXCEPT
                            !.pc = "send", !.event_type = event_type,
                            !.machine_id = machine_id, !.chat_id = ADMIN_CHAT_ID,
                            !.text = RequestText(user_name, machine_id),
                            !.keyboard = Keyboard(machine_id)]]
    /\ UNCHANGED messages

NotifyGeneric_Records(t, body) ==
    /\ task[t].kind = "idle"
    /\ CanStart
    /\ body.ok
    /\ LET data == body.json
           event_type == Get(data, "event", NoneVal)
           machine_id == Get(data, "machine_id", UnknownID)
       IN /\ event_type # "Permission Requested"
          /\ approval_db' = DbSet(approval_db, machine_id, "pending")
          /\ task' = [task EXCEPT ![t] =
                        [Call("notify", body) EXCEPT
                            !.pc = "send", !.event_type = event_type,
                            !.chat_id = ADMIN_CHAT_ID,
                            !.text = NotificationText(data)]]
    /\ UNCHANGED messages

\* the else branch up to the await of send_message
NotifyGeneric(t, body) ==
    /\ task[t].kind = "idle"
    /\ CanStart
    /\ body.ok
    /\ LET data == body.json
           event_type == Get(data, "event", NoneVal)
       IN /\ event_type # "Permission Requested"
          /\ task' = [task EXCEPT ![t] =
                        [Call("notify", body) EXCEPT
                            !.pc = "send", !.event_type = event_type,
                            !.chat_id = ADMIN_CHAT_ID,
                            !.text = NotificationText(data)]]
    /\ UNCHANGED <<approval_db, messages>>

NotifyResponse(event_type) ==
    IF event_type = "Permission Requested"
    THEN "permission_request_received"
    ELSE "generic_notification_sent"

NotifySendOk_Twice(t) ==
    /\ task[t].kind = "notify" /\ task[t].pc = "send"
    /\ LET m == [chat |-> task[t].chat_id, text |-> task[t].text,
                 keyboard |-> task[t].keyboard]
       IN messages' = Append(Append(messages, m), m)
    /\ task' = [task EXCEPT ![t] = Done(task[t], FALSE, NotifyResponse(task[t].event_type))]
    /\ UNCHANGED approval_db

NotifySendOk_ThenRecords(t) ==
    /\ task[t].kind = "notify" /\ task[t].pc = "send"
    /\ messages' = Append(messages, [chat |-> task[t].chat_id, text |-> task[t].text,
                                     keyboard |-> task[t].keyboard])
    /\ task' = [task EXCEPT ![t] = Done(task[t], FALSE, NotifyResponse(task[t].event_type))]
    /\ approval_db' = IF task[t].event_type = "Permission Requested"
                      THEN DbSet(approval_db, task[t].machine_id, "pending")
                      ELSE approval_db

\* send_message delivered: the message appears in the operator chat
NotifySendOk(t) ==
    /\ task[t].kind = "notify" /\ task[t].pc = "send"
    /\ messages' = Append(messages, [chat |-> task[t].chat_id, text |-> task[t].text,
                                     keyboard |-> task[t].keyboard])
    /\ task' = [task EXCEPT ![t] = Done(task[t], FALSE, NotifyResponse(task[t].event_type))]
    /\ UNCHANGED approval_db

NotifySendFail_Rollback(t) ==
    /\ task[t].kind = "notify" /\ task[t].pc = "send"
    /\ task' = [task EXCEPT ![t] = Done(task[t], FALSE, "500")]
    /\ approval_db' = [k \in (DOMAIN approval_db) \ {task[t].machine_id} |-> approval_db[k]]
    /\ UNCHANGED messages

\* send_message raises: nothing catches it in notify, the server answers 500
NotifySendFail(t) ==
    /\ task[t].kind = "notify" /\ task[t].pc = "send"
    /\ task' = [task EXCEPT ![t] = Done(task[t], FALSE, "500")]
    /\ UNCHANGED <<approval_db, messages>>

\* ---- POST /telegram ----
\* a text command may be answered with one more message
SendsMessage(body) == body.ok /\ "message" \in DOMAIN body.json

\* request.json() is outside the try block
WebhookBadBody(t, body) ==
    /\ task[t].kind = "idle"
    /\ ~body.ok
    /\ task' = [task EXCEPT ![t] = Done(Call("telegram_webhook", body), FALSE, "500")]
    /\ UNCHANGED <<approval_db, messages>>

\* the fields the handler reads from a callback_query
CallbackFields == {"data", "message_id", "chat_id", "id"}

\* a button press up to the await of answer_callback_query; a missing field
\* raises KeyError, which the except clause logs
WebhookCallback(t, body) ==
    /\ task[t].kind = "idle"
    /\ body.ok
    /\ "callback_query" \in DOMAIN body.json
    /\ LET callback_query == body.json.callback_query
           call == Call("telegram_webhook", body)
       IN IF CallbackFields \subseteq DOMAIN callback_query
          THEN task' = [task EXCEPT ![t] =
                          [call EXCEPT !.pc = "answer",
                                       !.message_id = callback_query.message_id,
                                       !.chat_id = callback_query.chat_id]]
          ELSE task' = [task EXCEPT ![t] = Done(call, TRUE, "ok")]
    /\ UNCHANGED <<approval_db, messages>>

\* answer_callback_query raises: the except clause logs it, nothing is decided
WebhookAnswerFail(t) ==
    /\ task[t].kind = "telegram_webhook" /\ task[t].pc = "answer"
    /\ task' = [task EXCEPT ![t] = Done(task[t], TRUE, "ok")]
    /\ UNCHANGED <<approval_db, messages>>

\* the status an action writes
Outcome(action) == IF action = <<"approve">> THEN "approved" ELSE "denied"

\* the text an action puts into the message
OutcomeText(action, machine_id) ==
    IF action = <<"approve">> THEN ApprovedText(machine_id) ELSE DeniedText(machine_id)

\* the store after the approve / deny branch
Decide(db, action, machine_id) == DbSet(db, machine_id, Outcome(action))

WebhookDecide_ElseDeny(t) ==
    /\ task[t].kind = "telegram_webhook" /\ task[t].pc = "answer"
    /\ LET parts == Split(task[t].body.json.callback_query.data)
       IN IF Len(parts) # 2
          THEN /\ task' = [task EXCEPT ![t] = Done(task[t], TRUE, "ok")]
               /\ UNCHANGED approval_db
          ELSE LET action == parts[1]
                   machine_id == parts[2]
                   call == [task[t] EXCEPT !.action = action, !.machine_id = machine_id]
               IN /\ approval_db' = Decide(approval_db, action, machine_id)
                  /\ task' = [task EXCEPT ![t] =
                                [call EXCEPT !.pc = "edit",
                                             !.text = OutcomeText(action, machine_id)]]
    /\ UNCHANGED messages

\* answer_callback_query returned: split the tag, write the status, and
\* await edit_message_text
WebhookDecide(t) ==
    /\ task[t].kind = "telegram_webhook" /\ task[t].pc = "answer"
    /\ LET parts == Split(task[t].body.json.callback_query.data)
       IN IF Len(parts) # 2
          THEN /\ task' = [task EXCEPT ![t] = Done(task[t], TRUE, "ok")]
               /\ UNCHANGED approval_db
          ELSE LET action == parts[1]
                   machine_id == parts[2]
                   call == [task[t] EXCEPT !.action = action, !.machine_id = machine_id]
               IN IF action \in {<<"approve">>, <<"deny">>}
                  THEN /\ approval_db' = Decide(approval_db, action, machine_id)
                       /\ task' = [task EXCEPT ![t] =
                                     [call EXCEPT !.pc = "edit",
                                                  !.text = OutcomeText(action, machine_id)]]
                  ELSE /\ task' = [task EXCEPT ![t] = Done(call, FALSE, "ok")]
                       /\ UNCHANGED approval_db
    /\ UNCHANGED messages

\* the message edit_message_text addresses exists
Editable(msgs, chat_id, message_id) ==
    message_id \in 1..Len(msgs) /\ msgs[message_id].chat = chat_id

\* edit_message_text without reply_markup: new text, the keyboard is gone
EditMessage(msgs, message_id, text) ==
    [msgs EXCEPT ![message_id] = [chat |-> msgs[message_id].chat, text |-> text,
                                  keyboard |-> <<>>]]

WebhookEditOk_SendsNew(t) ==
    /\ task[t].kind = "telegram_webhook" /\ task[t].pc = "edit"
    /\ Editable(messages, task[t].chat_id, task[t].message_id)
    /\ messages' = Append(messages, [chat |-> task[t].chat_id, text |-> task[t].text,
                                     keyboard |-> <<>>])
    /\ task' = [task EXCEPT ![t] = Done(task[t], FALSE, "ok")]
    /\ UNCHANGED approval_db

WebhookEditOk(t) ==
    /\ task[t].kind = "telegram_webhook" /\ task[t].pc = "edit"
    /\ Editable(messages, task[t].chat_id, task[t].message_id)
    /\ messages' = EditMessage(messages, task[t].message_id, task[t].text)
    /\ task' = [task EXCEPT ![t] = Done(task[t], FALSE, "ok")]
    /\ UNCHANGED approval_db

WebhookEditFail_Rollback(t) ==
    /\ task[t].kind = "telegram_webhook" /\ task[t].pc = "edit"
    /\ task' = [task EXCEPT ![t] = Done(task[t], TRUE, "ok")]
    /\ approval_db' = DbSet(approval_db, task[t].machine_id, "pending")
    /\ UNCHANGED messages

\* edit_message_text raises: logged by the except clause
WebhookEditFail(t) ==
    /\ task[t].kind = "telegram_webhook" /\ task[t].pc = "edit"
    /\ task' = [task EXCEPT ![t] = Done(task[t], TRUE, "ok")]
    /\ UNCHANGED <<approval_db, messages>>

\* a text command up to the await of send_message, or to the return
WebhookCommand(t, body) ==
    /\ task[t].kind = "idle"
    /\ SendsMessage(body) => CanStart
    /\ body.ok
    /\ "callback_query" \notin DOMAIN body.json
    /\ "message" \in DOMAIN body.json
    /\ "text" \in DOMAIN body.json.message
    /\ LET chat_id == body.json.message.chat_id
           text == body.json.message.text
           call == [Call("telegram_webhook", body) EXCEPT !.chat_id = chat_id]
       IN IF text = "/start"
          THEN /\ task' = [task EXCEPT ![t] =
                             [call EXCEPT !.pc = "send", !.text = HelloText(chat_id)]]
               /\ UNCHANGED approval_db
          ELSE IF ClearCacheAllowed(text, chat_id)
          THEN /\ approval_db' = EmptyDb
               /\ task' = [task EXCEPT ![t] =
                             [call EXCEPT !.pc = "send", !.text = ClearedText]]
          ELSE /\ task' = [task EXCEPT ![t] = Done(call, FALSE, "ok")]
               /\ UNCHANGED approval_db
    /\ UNCHANGED messages

\* an update that is neither a button press nor a text message
WebhookIgnore(t, body) ==
    /\ task[t].kind = "idle"
    /\ body.ok
    /\ "callback_query" \notin DOMAIN body.json
    /\ ~("message" \in DOMAIN body.json /\ "text" \in DOMAIN body.json.message)
    /\ task' = [task EXCEPT ![t] = Done(Call("telegram_webhook", body), FALSE, "ok")]
    /\ UNCHANGED <<approval_db, messages>>

WebhookSendOk(t) ==
    /\ task[t].kind = "telegram_webhook" /\ task[t].pc = "send"
    /\ messages' = Append(messages, [chat |-> task[t].chat_id, text |-> task[t].text,
                                     keyboard |-> <<>>])
    /\ task' = [task EXCEPT ![t] = Done(task[t], FALSE, "ok")]
    /\ UNCHANGED approval_db

WebhookSendFail_Raises(t) ==
    /\ task[t].kind = "telegram_webhook" /\ task[t].pc = "send"
    /\ task' = [task EXCEPT ![t] = Done(task[t], FALSE, "500")]
    /\ UNCHANGED <<approval_db, messages>>

\* send_message raises: logged by the except clause
WebhookSendFail(t) ==
    /\ task[t].kind = "telegram_webhook" /\ task[t].pc = "send"
    /\ task' = [task EXCEPT ![t] = Done(task[t], TRUE, "ok")]
    /\ UNCHANGED <<approval_db, messages>>

\* ---- every handler: the response has been written, the call is over ----
Return(t) ==
    /\ task[t].pc = "done"
    /\ task' = [task EXCEPT ![t] = Idle]
    /\ UNCHANGED <<approval_db, messages>>

Next ==
    \E t \in Tasks :
        \/ \E m \in MachineIds \cup {UnknownID} : check_status(t, m)
        \/ \E body \in NotifyInputs : NotifyBadBody(t, body)
        \/ \E body \in NotifyInputs : NotifyPermission(t, body)
        \/ \E body \in NotifyInputs : NotifyGeneric(t, body)
        \/ NotifySendOk(t)
        \/ NotifySendFail(t)
        \/ \E body \in WebhookInputs : WebhookBadBody(t, body)
        \/ \E body \in WebhookInputs : WebhookCallback(t, body)
        \/ WebhookAnswerFail(t)
        \/ WebhookDecide(t)
        \/ WebhookEditOk(t)
        \/ WebhookEditFail(t)
        \/ \E body \in WebhookInputs : WebhookCommand(t, body)
        \/ \E body \in WebhookInputs : WebhookIgnore(t, body)
        \/ WebhookSendOk(t)
        \/ WebhookSendFail(t)
        \/ Return(t)

Spec == Init /\ [][Next]_vars

\* ======================= properties =======================
Terminal == {"approved", "denied"}
Keys == MachineIds \cup {UnknownID}

\* the step in which call t takes the approve / deny branch and writes the store
DecideStep(t) ==
    /\ task[t].kind = "telegram_webhook" /\ task[t].pc = "answer"
    /\ task'[t].pc = "edit"

\* the step in which call t of notify takes the "Permission Requested" branch
CreateStep(t) ==
    /\ task[t].kind = "idle"
    /\ task'[t].kind = "notify" /\ task'[t].pc = "send"
    /\ task'[t].event_type = "Permission Requested"

\* the step in which call t of telegram_webhook reads the text command cmd
CommandStep(t, cmd) ==
    /\ task[t].kind = "idle"
    /\ task'[t].kind = "telegram_webhook"
    /\ task'[t].body.ok
    /\ "callback_query" \notin DOMAIN task'[t].body.json
    /\ "message" \in DOMAIN task'[t].body.json
    /\ "text" \in DOMAIN task'[t].body.json.message
    /\ task'[t].body.json.message.text = cmd

\* the step in which send_message of call t of notify raises
SendFailStep(t) ==
    /\ task[t].kind = "notify" /\ task[t].pc = "send"
    /\ task'[t].pc = "done" /\ task'[t].response = "500"

IsRequestMessage(m) == m.text[1] = "New Permission Request"

\* C1: a recorded approved / denied state is never replaced by the other
\* decision: whatever the handlers do, a key that holds a terminal state and
\* still holds one after a step holds the same one.
C1_DecidedAtMostOnce ==
    [][\A k \in DOMAIN approval_db :
          (approval_db[k] \in Terminal /\ k \in DOMAIN approval_db'
             /\ approval_db'[k] \in Terminal)
          => approval_db'[k] = approval_db[k]]_vars

\* C2: when a call decides an id while another call that decided the same
\* id the other way is still in flight and its outcome is the one stored,
\* the later call does not overwrite the stored outcome.
C2_FirstSerializedDecisionWins ==
    [][\A t \in Tasks, u \in Tasks :
          (/\ t # u
           /\ DecideStep(t)
           /\ task[u].kind = "telegram_webhook" /\ task[u].pc = "edit"
           /\ task[u].machine_id = task'[t].machine_id
           /\ task[u].action # task'[t].action
           /\ StatusOf(approval_db, task[u].machine_id) = Outcome(task[u].action))
          => approval_db' = approval_db]_vars

\* C3: a press of a button that the message of an earlier request still
\* shows does not change the store when a later request of the same subject
\* has been delivered after that message.
C3_PressDecidesOwnRequest ==
    [][\A t \in Tasks :
          (/\ DecideStep(t)
           /\ Editable(messages, task[t].chat_id, task[t].message_id)
           /\ \E b \in 1..Len(messages[task[t].message_id].keyboard) :
                 messages[task[t].message_id].keyboard[b].callback_data
                    = task[t].body.json.callback_query.data
           /\ \E j \in (task[t].message_id + 1)..Len(messages) :
                 /\ IsRequestMessage(messages[j])
                 /\ messages[j].text[3] = task'[t].machine_id)
          => approval_db' = approval_db]_vars

\* C4: when notify creates a request for an event that carries its machine
\* id, the id it puts into the buttons is carried by no message delivered
\* before, and a status lookup right after the creation yields pending.
C4_FreshIdAndPending ==
    [][\A t \in Tasks :
          (CreateStep(t) /\ "machine_id" \in DOMAIN task'[t].body.json)
          => /\ \A i \in 1..Len(messages) :
                   messages[i].keyboard # <<>>
                   => Split(messages[i].keyboard[1].callback_data)[2] # task'[t].machine_id
             /\ StatusOf(approval_db', task'[t].machine_id) = "pending"]_vars

\* C5: an approve / deny action on an id whose recorded state is already
\* approved or denied leaves the store as it is and edits the message to
\* "already handled".
C5_RepeatReportedAlreadyHandled ==
    [][\A t \in Tasks :
          (DecideStep(t) /\ StatusOf(approval_db, task'[t].machine_id) \in Terminal)
          => /\ approval_db' = approval_db
             /\ task'[t].text[1] = "already handled"]_vars

\* C6: an operator action on an id that has no record leaves the store
\* unchanged, so that a status query for the id still yields not_found.
C6_UnknownIdLeavesStore ==
    [][\A t \in Tasks :
          (/\ task[t].kind = "telegram_webhook" /\ task[t].pc = "answer"
           /\ task'[t].pc # "answer"
           /\ Len(Split(task[t].body.json.callback_query.data)) = 2
           /\ Split(task[t].body.json.callback_query.data)[2] \notin DOMAIN approval_db)
          => /\ approval_db' = approval_db
             /\ StatusOf(approval_db', Split(task[t].body.json.callback_query.data)[2])
                   = "not_found"]_vars

\* C7: "/clear_cache" from the operator chat empties the store, so every
\* status lookup yields not_found; from any other chat it leaves the store
\* unchanged.
C7_ClearCacheOnlyByOperator ==
    [][\A t \in Tasks :
          CommandStep(t, "/clear_cache")
          => IF task'[t].body.json.message.chat_id = ADMIN_CHAT_ID
             THEN /\ approval_db' = EmptyDb
                  /\ \A k \in Keys : StatusOf(approval_db', k) = "not_found"
             ELSE approval_db' = approval_db]_vars

\* the operator has cleared a store that held the request of a delivered message
C7_Witness ==
    \E t \in Tasks :
       /\ task[t].kind = "telegram_webhook" /\ task[t].pc = "send"
       /\ task[t].text = ClearedText
       /\ task[t].chat_id = ADMIN_CHAT_ID
       /\ approval_db = EmptyDb
       /\ \E i \in 1..Len(messages) : IsRequestMessage(messages[i])

\* C8: every call of notify with a JSON event ends with a success
\* acknowledgment, whatever happens to the delivery.
C8_NotifyAlwaysAcknowledges ==
    \A t \in Tasks :
       (task[t].kind = "notify" /\ task[t].pc = "done" /\ task[t].body.ok)
       => task[t].response \in {"permission_request_received", "generic_notification_sent"}

\* C9: when send_message raises in the "Permission Requested" branch, the
\* store keeps the record notify wrote: the step changes nothing in the
\* store, and a status lookup for the subject yields what it yielded before
\* (pending, unless another handler has written the key meanwhile).
C9_DeliveryFailureKeepsRequest ==
    [][\A t \in Tasks :
          (SendFailStep(t) /\ task[t].event_type = "Permission Requested")
          => /\ task[t].machine_id \in DOMAIN approval_db'
                   <=> task[t].machine_id \in DOMAIN approval_db
             /\ StatusOf(approval_db', task[t].machine_id)
                   = StatusOf(approval_db, task[t].machine_id)
             /\ approval_db' = approval_db]_vars

\* the delivery failed and the request is still pending
C9_Witness ==
    \E t \in Tasks :
       /\ task[t].kind = "notify" /\ task[t].pc = "done"
       /\ task[t].event_type = "Permission Requested"
       /\ task[t].response = "500"
       /\ StatusOf(approval_db, task[t].machine_id) = "pending"

\* C10: a JSON event that lacks the event kind or the machine id leaves the
\* store unchanged.
C10_MalformedEventLeavesStore ==
    [][\A t \in Tasks :
          (/\ task[t].kind = "idle"
           /\ task'[t].kind = "notify"
           /\ task'[t].body.ok
           /\ ~({"event", "machine_id"} \subseteq DOMAIN task'[t].body.json))
          => approval_db' = approval_db]_vars


\* the step in which check_status is called for machine_id and answers
StatusStep(t) ==
    /\ task[t].kind = "idle"
    /\ task'[t].kind = "check_status"

\* C11: a status query for a machine id that has no record answers
\* not_found, raises nothing and leaves the store as it is, in every
\* reachable state of the store.
C11_UnknownSubjectNotFound ==
    [][\A t \in Tasks :
          (StatusStep(t) /\ task'[t].machine_id \notin DOMAIN approval_db)
          => /\ task'[t].pc = "done"
             /\ task'[t].response = "not_found"
             /\ ~task'[t].err
             /\ approval_db' = approval_db]_vars

\* a query answered not_found after the operator cleared a store that held
\* the request of a delivered message
C11_Witness ==
    \E t \in Tasks :
       /\ task[t].kind = "check_status" /\ task[t].pc = "done"
       /\ task[t].response = "not_found"
       /\ task[t].machine_id \in MachineIds
       /\ \E i \in 1..Len(messages) :
             /\ IsRequestMessage(messages[i])
             /\ messages[i].text[3] = task[t].machine_id

\* the step that ends the await of answer_callback_query in a call t whose
\* tag does not split into two parts or names neither approve nor deny
UnrecognizedStep(t) ==
    /\ task[t].kind = "telegram_webhook" /\ task[t].pc = "answer"
    /\ task'[t] # task[t]
    /\ LET parts == Split(task[t].body.json.callback_query.data)
       IN Len(parts) # 2 \/ parts[1] \notin {<<"approve">>, <<"deny">>}

\* C12: an operator action whose tag does not split into action and id, or
\* whose action is neither approve nor deny, ends the call without a change
\* of the store or of any message.
C12_UnrecognizedActionRejected ==
    [][\A t \in Tasks :
          UnrecognizedStep(t)
          => /\ approval_db' = approval_db
             /\ messages' = messages
             /\ task'[t].pc = "done"
             /\ task'[t].response = "ok"]_vars

\* an unknown action and an unsplittable tag have been handled while the
\* store holds a record
C12_Witness ==
    /\ approval_db # EmptyDb
    /\ \E t \in Tasks :
          /\ task[t].kind = "telegram_webhook" /\ task[t].pc = "done"
          /\ task[t].action = <<"revoke">>
    /\ \E t \in Tasks :
          /\ task[t].kind = "telegram_webhook" /\ task[t].pc = "done"
          /\ task[t].err
          /\ task[t].body.ok
          /\ "callback_query" \in DOMAIN task[t].body.json
          /\ "data" \in DOMAIN task[t].body.json.callback_query
          /\ Len(Split(task[t].body.json.callback_query.data)) = 1

\* the step in which call t of notify takes the else branch
GenericStep(t) ==
    /\ task[t].kind = "idle"
    /\ task'[t].kind = "notify"
    /\ task'[t].body.ok
    /\ Get(task'[t].body.json, "event", NoneVal) # "Permission Requested"

\* the step in which send_message of call t of notify, in the else branch,
\* returns
GenericSentStep(t) ==
    /\ task[t].kind = "notify" /\ task[t].pc = "send"
    /\ task[t].event_type # "Permission Requested"
    /\ task'[t].pc = "done" /\ task'[t].response # "500"

\* C13: an event whose kind is not "Permission Requested" is forwarded as
\* a notification without buttons; neither taking the branch nor the
\* delivery changes the store.
C13_OtherEventOnlyForwarded ==
    [][\A t \in Tasks :
          /\ GenericStep(t)
             => /\ approval_db' = approval_db
                /\ task'[t].pc = "send"
                /\ task'[t].keyboard = <<>>
                /\ task'[t].text[1] = "Notification"
          /\ GenericSentStep(t)
             => /\ approval_db' = approval_db
                /\ Len(messages') = Len(messages) + 1
                /\ messages'[Len(messages')].keyboard = <<>>
                /\ messages'[Len(messages')].text[1] = "Notification"
                /\ task'[t].response = "generic_notification_sent"]_vars

\* a notification has been forwarded while the store holds a pending request
C13_Witness ==
    /\ \E k \in DOMAIN approval_db : approval_db[k] = "pending"
    /\ \E t \in Tasks :
          /\ task[t].kind = "notify" /\ task[t].pc = "done"
          /\ task[t].response = "generic_notification_sent"
          /\ "machine_id" \in DOMAIN task[t].body.json
          /\ task[t].body.json.machine_id \notin DOMAIN approval_db
    /\ Len(messages) > 0
    /\ messages[Len(messages)].text[1] = "Notification"


\* call t of telegram_webhook handles a button press
IsPress(call) ==
    /\ call.kind = "telegram_webhook"
    /\ call.body.ok
    /\ "callback_query" \in DOMAIN call.body.json

\* the machine id a message was delivered for, or edited to
SubjectOf(m) == m.text[Len(m.text)]

\* C14: no step of a call that handles a button press adds a message; it
\* changes at most the message the press came from, in place, and only a
\* message that was delivered for the machine id the press decides.
C14_PressOnlyEditsItsMessage ==
    [][\A t \in Tasks :
          ((IsPress(task[t]) \/ IsPress(task'[t])) /\ task'[t] # task[t])
          => /\ Len(messages') = Len(messages)
             /\ \A i \in 1..Len(messages) :
                   messages'[i] # messages[i]
                   => /\ i = task[t].body.json.callback_query.message_id
                      /\ messages'[i].chat = messages[i].chat
                      /\ messages'[i].text = task[t].text
                      /\ SubjectOf(messages[i]) = task[t].machine_id
                      /\ SubjectOf(messages'[i]) = task[t].machine_id]_vars

\* the first of two request messages has been edited in place to the
\* outcome; the second still shows its buttons
C14_Witness ==
    /\ Len(messages) = 2
    /\ messages[1].text[1] \in {"Approved", "Denied"}
    /\ messages[1].keyboard = <<>>
    /\ IsRequestMessage(messages[2])
    /\ messages[2].keyboard # <<>>
    /\ SubjectOf(messages[2]) = SubjectOf(messages[1])
    /\ \E t \in Tasks :
          /\ IsPress(task[t]) /\ task[t].pc = "done" /\ ~task[t].err
          /\ task[t].message_id = 1

\* the step in which call t of notify reads a JSON event
EventStep(t) ==
    /\ task[t].kind = "idle"
    /\ task'[t].kind = "notify"
    /\ task'[t].body.ok

\* C15: every JSON event handled by notify makes exactly one send_message
\* call: the event step starts it and delivers nothing yet, the call ends
\* the handler, and it delivers exactly one message (the one built for the
\* event) when it returns and none when it raises; a call of notify adds no
\* message in any other step.
C15_OneMessagePerEvent ==
    [][\A t \in Tasks :
          /\ EventStep(t)
             => /\ task'[t].pc = "send"
                /\ messages' = messages
          /\ (task[t].kind = "notify" /\ task[t].pc = "send" /\ task'[t] # task[t])
             => /\ task'[t].pc = "done"
                /\ IF task'[t].response = "500"
                   THEN messages' = messages
                   ELSE messages' = Append(messages,
                                           [chat |-> ADMIN_CHAT_ID, text |-> task[t].text,
                                            keyboard |-> task[t].keyboard])
          /\ (task[t].kind = "notify" /\ task[t].pc = "done" /\ task'[t] # task[t])
             => /\ task'[t] = Idle
                /\ messages' = messages]_vars

\* two events, one of each branch, have been handled and each has
\* delivered its one message
C15_Witness ==
    /\ Len(messages) = 2
    /\ IsRequestMessage(messages[1])
    /\ messages[2].text[1] = "Notification"
    /\ \E t \in Tasks :
          /\ task[t].kind = "notify" /\ task[t].pc = "done"
          /\ task[t].response = "generic_notification_sent"


\* the step in which answer_callback_query of call t raises
AnswerFailStep(t) ==
    /\ task[t].kind = "telegram_webhook" /\ task[t].pc = "answer"
    /\ task'[t].pc = "done" /\ task'[t].err

\* C16: the decision of a button press does not depend on its
\* acknowledgment: when answer_callback_query raises for a press whose tag
\* is approve or deny with an id, the store holds the outcome of the press
\* after the step.
C16_DecisionAppliedWhenAckFails ==
    [][\A t \in Tasks :
          LET parts == Split(task[t].body.json.callback_query.data)
          IN (/\ AnswerFailStep(t)
              /\ Len(parts) = 2
              /\ parts[1] \in {<<"approve">>, <<"deny">>})
             => StatusOf(approval_db', parts[2]) = Outcome(parts[1])]_vars

\* the step in which edit_message_text of call t raises
EditFailStep(t) ==
    /\ task[t].kind = "telegram_webhook" /\ task[t].pc = "edit"
    /\ task'[t].pc = "done" /\ task'[t].err

\* C17: when edit_message_text raises after a decision was written, the
\* step changes nothing in the store: the record of the decided id exists
\* and a status lookup yields for it what it yielded before the failure.
C17_EditFailureKeepsDecision ==
    [][\A t \in Tasks :
          EditFailStep(t)
          => /\ approval_db' = approval_db
             /\ StatusOf(approval_db', task[t].machine_id)
                   = StatusOf(approval_db, task[t].machine_id)]_vars

\* the edit failed, the store holds the outcome the call wrote and a status
\* query made afterwards has answered it
C17_Witness ==
    \E t \in Tasks, u \in Tasks :
       /\ task[t].kind = "telegram_webhook" /\ task[t].pc = "done"
       /\ task[t].err /\ task[t].action = <<"approve">>
       /\ task[t].message_id > 0
       /\ messages[task[t].message_id].keyboard # <<>>
       /\ approval_db[task[t].machine_id] = "approved"
       /\ task[u].kind = "check_status"
       /\ task[u].machine_id = task[t].machine_id
       /\ task[u].response = "approved"

\* the step in which call t of telegram_webhook, given a JSON update,
\* produces its response
WebhookEndStep(t) ==
    /\ task'[t].kind = "telegram_webhook" /\ task'[t].pc = "done"
    /\ task[t].pc # "done"
    /\ task'[t].body.ok

\* C18: every call of telegram_webhook on a JSON update answers ok; when
\* an exception ended the processing (a transport call raised, a field was
\* missing, the tag did not split) it was caught and logged, and the step
\* changes neither the store, nor a message, nor another call in flight.
C18_WebhookNeverFails ==
    [][\A t \in Tasks :
          /\ WebhookEndStep(t)
             => /\ task'[t].response = "ok"
                /\ task'[t].err
                   => /\ approval_db' = approval_db
                      /\ messages' = messages
                      /\ \A u \in Tasks \ {t} : task'[u] = task[u]
          /\ (task[t].kind = "telegram_webhook" /\ task[t].body.ok
                /\ task[t].pc \in {"answer", "edit", "send"} /\ task'[t] # task[t])
             => task'[t].pc \in {"edit", "done"}]_vars

\* a call ended by a caught exception has answered ok while another call
\* is still awaiting its transport call
C18_Witness ==
    \E t \in Tasks, u \in Tasks :
       /\ task[t].kind = "telegram_webhook" /\ task[t].pc = "done"
       /\ task[t].body.ok /\ task[t].err /\ task[t].response = "ok"
       /\ task[u].pc \in {"send", "answer", "edit"}

\* C19: every record of the store holds pending, approved or denied;
\* not_found is an answer of check_status for an absent key and is never
\* stored.
C19_StoredStatesClosed ==
    \A k \in DOMAIN approval_db : approval_db[k] \in {"pending", "approved", "denied"}

\* a query has answered not_found for one key while the store holds a
\* decided and a pending record
C19_Witness ==
    /\ \E k \in DOMAIN approval_db : approval_db[k] \in Terminal
    /\ \E k \in DOMAIN approval_db : approval_db[k] = "pending"
    /\ \E t \in Tasks :
          /\ task[t].kind = "check_status"
          /\ task[t].response = "not_found"


\* the step in which the operator's "/clear_cache" empties the store
ClearStep ==
    \E t \in Tasks :
       /\ CommandStep(t, "/clear_cache")
       /\ task'[t].body.json.message.chat_id = ADMIN_CHAT_ID

\* the handlers without the operator's "/clear_cache"
NextNoClear == Next /\ ~ClearStep

SpecNoClear == Init /\ [][NextNoClear]_vars

\* the step in which send_message of call t of notify returns
SentStep(t) ==
    /\ task[t].kind = "notify" /\ task[t].pc = "send"
    /\ task'[t].pc = "done" /\ task'[t].response # "500"

\* C20: absent clear_cache, notify records the request before its
\* notification exists: the pending write delivers no message, the step
\* that delivers the notification writes nothing to the store, every
\* delivered message that shows buttons has the id of its tags recorded,
\* and a press of such a button finds the record when it decides.
C20_PendingBeforeNotification ==
    [][/\ \A i \in 1..Len(messages) :
             messages[i].keyboard # <<>>
             => Split(messages[i].keyboard[1].callback_data)[2] \in DOMAIN approval_db
       /\ \A t \in Tasks :
             /\ CreateStep(t)
                => /\ messages' = messages
                   /\ approval_db'[task'[t].machine_id] = "pending"
             /\ SentStep(t) => approval_db' = approval_db
             /\ (DecideStep(t) /\ task[t].message_id > 0)
                => task'[t].machine_id \in DOMAIN approval_db]_vars

\* a press of a button of a delivered notification has decided the request
\* that notify recorded
C20_Witness ==
    \E t \in Tasks :
       /\ task[t].kind = "telegram_webhook" /\ task[t].pc = "edit"
       /\ task[t].message_id > 0
       /\ messages[task[t].message_id].keyboard # <<>>
       /\ approval_db[task[t].machine_id] \in Terminal

====
